---- MODULE Spec2Model ----
(***************************************************************************)
(* Model of the time-allocation engine of srtseg: the timestamp codec      *)
(* (utils/timeUtils.ts) and TimeAllocationService                          *)
(* (services/segmentService.ts), driven as SRTProcessor.process drives     *)
(* them (processors/srtProcessor.ts).                                      *)
(*                                                                         *)
(* A timestamp text is a sequence of one-character strings, so that        *)
(* parsing and formatting are computed character by character as the code  *)
(* does.  Numbers are integers: every duration the code computes is the    *)
(* result of Math.round or of a difference of integers.                    *)
(***************************************************************************)
EXTENDS Integers, Sequences, FiniteSets, TLC

(***************************************************************************)
(* Characters and strings                                                  *)
(***************************************************************************)
Digits == {"0", "1", "2", "3", "4", "5", "6", "7", "8", "9"}

\* The characters String.prototype.trim removes: the WhiteSpace and
\* LineTerminator code points of ECMAScript. A character is a one-character
\* string; the code points a string of this language cannot hold are written
\* by their names.
WhiteSpace ==
  { " ", "\t", "\n", "\r", "\f",
    "",      \* U+000B, line tabulation
    " ",      \* U+00A0, no-break space
    " ",      \* U+1680, ogham space mark
    "﻿",      \* U+FEFF, zero width no-break space
    "U+2000", "U+2001", "U+2002", "U+2003", "U+2004", "U+2005", "U+2006",
    "U+2007", "U+2008", "U+2009", "U+200A", "U+2028", "U+2029", "U+202F",
    "U+205F", "U+3000" }

DigitValue(c) ==
  CASE c = "0" -> 0 [] c = "1" -> 1 [] c = "2" -> 2 [] c = "3" -> 3
    [] c = "4" -> 4 [] c = "5" -> 5 [] c = "6" -> 6 [] c = "7" -> 7
    [] c = "8" -> 8 [] c = "9" -> 9

DigitChar(d) ==
  CASE d = 0 -> "0" [] d = 1 -> "1" [] d = 2 -> "2" [] d = 3 -> "3"
    [] d = 4 -> "4" [] d = 5 -> "5" [] d = 6 -> "6" [] d = 7 -> "7"
    [] d = 8 -> "8" [] d = 9 -> "9"

RECURSIVE TrimStart(_)
TrimStart(s) ==
  IF s # <<>> /\ Head(s) \in WhiteSpace THEN TrimStart(Tail(s)) ELSE s

RECURSIVE TrimEnd(_)
TrimEnd(s) ==
  IF s # <<>> /\ s[Len(s)] \in WhiteSpace
    THEN TrimEnd(SubSeq(s, 1, Len(s) - 1))
    ELSE s

\* String.prototype.trim
Trim(s) == TrimEnd(TrimStart(s))

\* parseInt(text, 10) of a non-empty run of decimal digits
RECURSIVE ParseInt(_)
ParseInt(s) ==
  IF s = <<>> THEN 0
  ELSE 10 * ParseInt(SubSeq(s, 1, Len(s) - 1)) + DigitValue(s[Len(s)])

\* Number.prototype.toString of an integer
RECURSIVE NatToString(_)
NatToString(n) ==
  IF n < 10 THEN <<DigitChar(n)>>
  ELSE NatToString(n \div 10) \o <<DigitChar(n % 10)>>

NumberToString(n) == IF n < 0 THEN <<"-">> \o NatToString(-n) ELSE NatToString(n)

\* String.prototype.padStart(width, "0")
RECURSIVE PadStart(_, _)
PadStart(s, width) == IF Len(s) >= width THEN s ELSE PadStart(<<"0">> \o s, width)

(***************************************************************************)
(* Timestamp codec (utils/timeUtils.ts)                                    *)
(***************************************************************************)
\* timeRegex = /^(\d{2}):(\d{2}):(\d{2}),(\d{3})$/
TimeRegexMatches(t) ==
  /\ Len(t) = 12
  /\ \A k \in {1, 2, 4, 5, 7, 8, 10, 11, 12} : t[k] \in Digits
  /\ t[3] = ":"
  /\ t[6] = ":"
  /\ t[9] = ","

\* parseTimeStamp matching the digits and not the separators
ParseOkAnySeparator(timeStr) ==
  LET t == Trim(timeStr)
  IN /\ Len(t) = 12
     /\ \A k \in {1, 2, 4, 5, 7, 8, 10, 11, 12} : t[k] \in Digits

\* parseTimeStamp returns normally (does not throw) on timeStr
ParseOk(timeStr) == TimeRegexMatches(Trim(timeStr))

\* The value the thrown Error stands for
MalformedTimestamp == [error |-> "MalformedTimestamp"]

parseTimeStamp(timeStr) ==
  LET t == Trim(timeStr) IN
  IF ~TimeRegexMatches(t) THEN MalformedTimestamp
  ELSE [hours        |-> ParseInt(SubSeq(t, 1, 2)),
        minutes      |-> ParseInt(SubSeq(t, 4, 5)),
        seconds      |-> ParseInt(SubSeq(t, 7, 8)),
        milliseconds |-> ParseInt(SubSeq(t, 10, 12))]

\* formatTimeStamp without padStart
formatTimeStampUnpadded(timestamp) ==
  NumberToString(timestamp.hours) \o <<":">>
    \o NumberToString(timestamp.minutes) \o <<":">>
    \o NumberToString(timestamp.seconds) \o <<",">>
    \o NumberToString(timestamp.milliseconds)

formatTimeStamp(timestamp) ==
  LET h  == PadStart(NumberToString(timestamp.hours), 2)
      m  == PadStart(NumberToString(timestamp.minutes), 2)
      s  == PadStart(NumberToString(timestamp.seconds), 2)
      ms == PadStart(NumberToString(timestamp.milliseconds), 3)
  IN h \o <<":">> \o m \o <<":">> \o s \o <<",">> \o ms

timeStampToMilliseconds(timestamp) ==
  timestamp.hours * 3600000 + timestamp.minutes * 60000
    + timestamp.seconds * 1000 + timestamp.milliseconds

\* millisecondsToTimeStamp without Math.max(0, ...)
millisecondsToTimeStampUnclamped(totalMs) ==
  [hours        |-> totalMs \div 3600000,
   minutes      |-> (totalMs % 3600000) \div 60000,
   seconds      |-> (totalMs % 60000) \div 1000,
   milliseconds |-> totalMs % 1000]

\* totalMs is an integer in every call, so Math.round leaves it as it is.
millisecondsToTimeStamp(totalMs) ==
  LET ms == IF totalMs > 0 THEN totalMs ELSE 0 IN
  [hours        |-> ms \div 3600000,
   minutes      |-> (ms % 3600000) \div 60000,
   seconds      |-> (ms % 60000) \div 1000,
   milliseconds |-> ms % 1000]

\* calculateDuration returns normally on (startTime, endTime)
DurationOk(startTime, endTime) == ParseOk(startTime) /\ ParseOk(endTime)

calculateDuration(startTime, endTime) ==
  timeStampToMilliseconds(parseTimeStamp(endTime))
    - timeStampToMilliseconds(parseTimeStamp(startTime))

addMilliseconds(timeStr, addMs) ==
  formatTimeStamp(millisecondsToTimeStamp(
    timeStampToMilliseconds(parseTimeStamp(timeStr)) + addMs))

(***************************************************************************)
(* TimeAllocationService (services/segmentService.ts)                      *)
(***************************************************************************)
Min(a, b) == IF a < b THEN a ELSE b
Max(a, b) == IF a > b THEN a ELSE b
Abs(a) == IF a < 0 THEN -a ELSE a

\* Math.round(num / den) for den > 0, of the exact quotient: the nearest
\* integer, a tie going up
Round(num, den) == (2 * num + den) \div (2 * den)

RECURSIVE Pow2(_)
Pow2(n) == IF n = 0 THEN 1 ELSE 2 * Pow2(n - 1)

\* The exponent of the binade of n >= 1: the largest e with 2^e <= n
RECURSIVE Log2Floor(_)
Log2Floor(n) == IF n < 2 THEN 0 ELSE 1 + Log2Floor(n \div 2)

\* x * 2^k modulo m
RECURSIVE DoubledMod(_, _, _)
DoubledMod(x, k, m) ==
  IF k = 0 THEN x % m ELSE (2 * DoubledMod(x, k - 1, m)) % m

\* The least a with length * 2^a >= totalCharacters, for length >= 1: the
\* double length / totalCharacters lies in [2^-a, 2^(1-a))
RECURSIVE QuotientBinade(_, _)
QuotientBinade(length, totalCharacters) ==
  IF length >= totalCharacters THEN 0
  ELSE 1 + QuotientBinade(2 * length, totalCharacters)

\* The rounding error of the double q = length / totalCharacters, for
\* 0 < length < totalCharacters: with a the binade above and m the 53-bit
\* significand of q (round to nearest, ties to even), this is
\* length * 2^(52 + a) - m * totalCharacters, so that
\* q = length / totalCharacters - error / (totalCharacters * 2^(52 + a)).
QuotientError(length, totalCharacters) ==
  LET scaled == DoubledMod(length,
                           52 + QuotientBinade(length, totalCharacters),
                           2 * totalCharacters)
      rest   == scaled % totalCharacters
      odd    == scaled >= totalCharacters
  IN IF 2 * rest < totalCharacters THEN rest
     ELSE IF 2 * rest > totalCharacters THEN rest - totalCharacters
     ELSE IF odd THEN rest - totalCharacters ELSE rest

\* The exact share length * totalDuration / totalCharacters is k + 1/2 and the
\* double (length / totalCharacters) * totalDuration is below it: the product
\* q * totalDuration falls short of k + 1/2 by more than half the gap to the
\* double under k + 1/2 (the significand of k + 1/2 is even, so a product
\* exactly half way rounds to k + 1/2).
ProductBelowTie(length, totalCharacters, totalDuration) ==
  LET twice == 2 * length * totalDuration
  IN /\ 0 < length
     /\ length < totalCharacters
     /\ twice % totalCharacters = 0
     /\ (twice \div totalCharacters) % 2 = 1
     /\ LET n == Abs(twice \div totalCharacters)
            binades == QuotientBinade(length, totalCharacters)
                         + Log2Floor(n) - 1
            gaps == IF totalDuration > 0 /\ n = 1 THEN 4 ELSE 2
        IN gaps * totalDuration * QuotientError(length, totalCharacters)
             > totalCharacters * Pow2(binades)

\* Math.round((segment.length / totalCharacters) * totalDuration), the
\* quotient and the product being doubles: the rounding of the exact share,
\* but for a share of k + 1/2 whose double is below it, which rounds to k
proportionalDuration(length, totalCharacters, totalDuration) ==
  IF ProductBelowTie(length, totalCharacters, totalDuration)
    THEN Round(length * totalDuration, totalCharacters) - 1
    ELSE Round(length * totalDuration, totalCharacters)

DEFAULT_MIN_DURATION == 200
DEFAULT_MAX_DURATION == 3000

\* options.key ?? default, an absent key being undefined
OptionOr(options, key, default) ==
  IF key \in DOMAIN options THEN options[key] ELSE default

\* segments.reduce((sum, seg) => sum + seg.length, 0)
RECURSIVE SumLengths(_)
SumLengths(segments) ==
  IF segments = <<>> THEN 0
  ELSE SumLengths(SubSeq(segments, 1, Len(segments) - 1))
         + segments[Len(segments)].length

\* calculateRemainingDuration without Math.max(0, ...)
calculateRemainingDurationSigned(startTime, endTime) ==
  calculateDuration(startTime, endTime)

\* calculateRemainingDuration: what is left up to endTime, at least 0
calculateRemainingDuration(startTime, endTime) ==
  Max(0, calculateDuration(startTime, endTime))

\* The cursor left where it was
AdvanceCursorStale(currentStartTime, currentEndTime) == currentStartTime

\* currentStartTime = currentEndTime, the cursor passed to the next token
AdvanceCursor(currentStartTime, currentEndTime) == currentEndTime

\* The for loop of allocateTime after its first n iterations: the entries
\* pushed so far and the cursor, or the error a timestamp of the chain threw.
RECURSIVE allocateTimeLoop(_, _, _, _, _, _, _)
allocateTimeLoop(originalEntry, segments, minDuration, maxDuration, totalDuration, totalCharacters, n) ==
  IF n = 0
    THEN [error |-> "none", wordEntries |-> <<>>,
          currentStartTime |-> originalEntry.startTime]
  ELSE
    LET prev == allocateTimeLoop(originalEntry, segments, minDuration,
                                 maxDuration, totalDuration, totalCharacters,
                                 n - 1)
        segment == segments[n]
        currentStartTime == prev.currentStartTime
        clamped ==
          Min(maxDuration,
              Max(minDuration,
                  proportionalDuration(segment.length, totalCharacters,
                                       totalDuration)))
        wordDuration ==
          IF n = Len(segments)
            THEN calculateRemainingDuration(currentStartTime,
                                            originalEntry.endTime)
            ELSE clamped
        currentEndTime == addMilliseconds(currentStartTime, wordDuration)
    IN IF prev.error # "none" THEN prev
       ELSE IF ~ParseOk(currentStartTime)
         THEN [error |-> "MalformedTimestamp", wordEntries |-> <<>>,
               currentStartTime |-> currentStartTime]
       ELSE [error |-> "none",
             wordEntries |->
               Append(prev.wordEntries,
                      [index         |-> n,
                       word          |-> segment.word,
                       startTime     |-> currentStartTime,
                       endTime       |-> currentEndTime,
                       duration      |-> wordDuration,
                       originalIndex |-> originalEntry.index]),
             currentStartTime |->
               AdvanceCursor(currentStartTime, currentEndTime)]

\* validateTotalDuration with no tolerance
validateTotalDurationStrict(wordEntries, expectedDuration) ==
  IF Len(wordEntries) = 0 THEN [error |-> "none", warned |-> FALSE]
  ELSE
    LET firstEntry == wordEntries[1]
        lastEntry  == wordEntries[Len(wordEntries)]
    IN IF ~DurationOk(firstEntry.startTime, lastEntry.endTime)
         THEN [error |-> "MalformedTimestamp", warned |-> FALSE]
         ELSE [error  |-> "none",
               warned |-> Abs(calculateDuration(firstEntry.startTime,
                                                lastEntry.endTime)
                              - expectedDuration) > 0]

\* validateTotalDuration: whether it throws, and whether it prints the warning
validateTotalDuration(wordEntries, expectedDuration) ==
  IF Len(wordEntries) = 0 THEN [error |-> "none", warned |-> FALSE]
  ELSE
    LET firstEntry == wordEntries[1]
        lastEntry  == wordEntries[Len(wordEntries)]
    IN IF ~DurationOk(firstEntry.startTime, lastEntry.endTime)
         THEN [error |-> "MalformedTimestamp", warned |-> FALSE]
         ELSE [error  |-> "none",
               warned |-> Abs(calculateDuration(firstEntry.startTime,
                                                lastEntry.endTime)
                              - expectedDuration) > 1]

\* allocateTime: the entries it returns, whether the warning was printed, or
\* the error it throws
allocateTime(originalEntry, segments, options) ==
  LET minDuration == OptionOr(options, "minWordDuration", DEFAULT_MIN_DURATION)
      maxDuration == OptionOr(options, "maxWordDuration", DEFAULT_MAX_DURATION)
      totalDuration ==
        calculateDuration(originalEntry.startTime, originalEntry.endTime)
      totalCharacters == SumLengths(segments)
      loop == allocateTimeLoop(originalEntry, segments, minDuration,
                               maxDuration, totalDuration, totalCharacters,
                               Len(segments))
      check == validateTotalDuration(loop.wordEntries, totalDuration)
      Returns(w, warned) ==
        [error |-> "none", wordEntries |-> w, warned |-> warned]
      Throws(e) == [error |-> e, wordEntries |-> <<>>, warned |-> FALSE]
  IN IF Len(segments) = 0 THEN Returns(<<>>, FALSE)
     ELSE IF ~DurationOk(originalEntry.startTime, originalEntry.endTime)
       THEN Throws("MalformedTimestamp")
     ELSE IF totalCharacters = 0 THEN Returns(<<>>, FALSE)
     ELSE IF loop.error # "none" THEN Throws(loop.error)
     ELSE IF check.error # "none" THEN Throws(check.error)
     ELSE Returns(loop.wordEntries, check.warned)

\* optimizeIteration moving the whole next entry, its endTime included
optimizeIterationMoveNext(optimized, k) ==
  LET prev    == optimized[k - 1]
      current == optimized[k]
      next    == optimized[k + 1]
      sum     == prev.duration + next.duration
      adjustedDuration == Round(2 * current.duration + sum, 4)
      newEndTime == addMilliseconds(current.startTime, adjustedDuration)
  IN IF ~(10 * Abs(2 * current.duration - sum) > 3 * sum)
       THEN [error |-> "none", optimized |-> optimized]
     ELSE IF ~ParseOk(current.startTime)
       THEN [error |-> "MalformedTimestamp",
             optimized |->
               [optimized EXCEPT
                  ![k] = [@ EXCEPT !.duration = adjustedDuration]]]
     ELSE [error |-> "none",
           optimized |->
             [optimized EXCEPT
                ![k]     = [@ EXCEPT !.duration = adjustedDuration,
                                     !.endTime  = newEndTime],
                ![k + 1] = [@ EXCEPT !.startTime = newEndTime,
                                     !.endTime =
                                       addMilliseconds(newEndTime,
                                                       next.duration)]]]

\* optimizeIteration with a threshold of half the mean
optimizeIterationLoose(optimized, k) ==
  LET prev    == optimized[k - 1]
      current == optimized[k]
      next    == optimized[k + 1]
      sum     == prev.duration + next.duration
      adjustedDuration == Round(2 * current.duration + sum, 4)
      newEndTime == addMilliseconds(current.startTime, adjustedDuration)
  IN IF ~(4 * Abs(2 * current.duration - sum) > 2 * sum)
       THEN [error |-> "none", optimized |-> optimized]
     ELSE IF ~ParseOk(current.startTime)
       THEN [error |-> "MalformedTimestamp",
             optimized |->
               [optimized EXCEPT
                  ![k] = [@ EXCEPT !.duration = adjustedDuration]]]
     ELSE [error |-> "none",
           optimized |->
             [optimized EXCEPT
                ![k]     = [@ EXCEPT !.duration = adjustedDuration,
                                     !.endTime  = newEndTime],
                ![k + 1] = [@ EXCEPT !.startTime = newEndTime]]]

\* optimizeIteration without the assignment to the next entry's startTime
optimizeIterationNoShift(optimized, k) ==
  LET prev    == optimized[k - 1]
      current == optimized[k]
      next    == optimized[k + 1]
      sum     == prev.duration + next.duration
      adjustedDuration == Round(2 * current.duration + sum, 4)
      newEndTime == addMilliseconds(current.startTime, adjustedDuration)
  IN IF ~(10 * Abs(2 * current.duration - sum) > 3 * sum)
       THEN [error |-> "none", optimized |-> optimized]
     ELSE IF ~ParseOk(current.startTime)
       THEN [error |-> "MalformedTimestamp",
             optimized |->
               [optimized EXCEPT
                  ![k] = [@ EXCEPT !.duration = adjustedDuration]]]
     ELSE [error |-> "none",
           optimized |->
             [optimized EXCEPT
                ![k] = [@ EXCEPT !.duration = adjustedDuration,
                                 !.endTime  = newEndTime]]]

\* One iteration of the smoothing loop of optimizeTimeAllocation, at position
\* k of the array (positions count from 1, so k is the code's i + 1): the
\* array after it and the error addMilliseconds threw, if it did. The
\* duration is assigned before addMilliseconds is called, so an iteration
\* that throws leaves the new duration with the old endTime.
\*   |current.duration - avg| > avg * 0.3, with avg = sum / 2, is
\*   10 * |2 * current.duration - sum| > 3 * sum; the doubles the code compares
\*   order alike over the ranges of this model.
optimizeIteration(optimized, k) ==
  LET prev    == optimized[k - 1]
      current == optimized[k]
      next    == optimized[k + 1]
      sum     == prev.duration + next.duration
      adjustedDuration == Round(2 * current.duration + sum, 4)
      newEndTime == addMilliseconds(current.startTime, adjustedDuration)
  IN IF ~(10 * Abs(2 * current.duration - sum) > 3 * sum)
       THEN [error |-> "none", optimized |-> optimized]
     ELSE IF ~ParseOk(current.startTime)
       THEN [error |-> "MalformedTimestamp",
             optimized |->
               [optimized EXCEPT
                  ![k] = [@ EXCEPT !.duration = adjustedDuration]]]
     ELSE [error |-> "none",
           optimized |->
             [optimized EXCEPT
                ![k]     = [@ EXCEPT !.duration = adjustedDuration,
                                     !.endTime  = newEndTime],
                ![k + 1] = [@ EXCEPT !.startTime = newEndTime]]]

(***************************************************************************)
(* Inputs                                                                  *)
(***************************************************************************)
MaxSentences == 3      \* sentences (and token lists) of a batch
MaxTokens == 3         \* tokens of the sentence of a one-sentence run
MaxLength == 2         \* length of a token of a one-sentence run
MaxCodecSteps == 2     \* codec functions applied in a row
MaxMillis == 40        \* largest small millisecond offset given to the codec

RECURSIVE SeqsUpTo(_, _)
SeqsUpTo(S, n) ==
  IF n = 0 THEN {<<>>}
  ELSE LET shorter == SeqsUpTo(S, n - 1)
       IN shorter \cup {Append(q, e) : q \in {r \in shorter : Len(r) = n - 1},
                                        e \in S}

TwoDigits(n) == <<DigitChar(n \div 10), DigitChar(n % 10)>>
ThreeDigits(n) ==
  <<DigitChar(n \div 100), DigitChar((n \div 10) % 10), DigitChar(n % 10)>>

\* The text HH:MM:SS,mmm of an input file
TimeText(h, m, s, ms) ==
  TwoDigits(h) \o <<":">> \o TwoDigits(m) \o <<":">> \o TwoDigits(s)
    \o <<",">> \o ThreeDigits(ms)

Entry(index, startTime, endTime) ==
  [index |-> index, startTime |-> startTime, endTime |-> endTime,
   text |-> "text"]

WordNames == <<"w1", "w2", "w3", "w4", "w5">>

\* The token list with the given lengths
Segments(lengths) ==
  [k \in 1..Len(lengths) |->
     [word |-> WordNames[k], length |-> lengths[k], position |-> k - 1]]

\* Sentences of a batch: two that touch, and one after a gap that crosses
\* a minute
BatchEntries ==
  { Entry(7, TimeText(0, 0, 0, 0), TimeText(0, 0, 0, 6)),
    Entry(8, TimeText(0, 0, 0, 6), TimeText(0, 0, 0, 20)),
    Entry(9, TimeText(0, 0, 59, 990), TimeText(0, 1, 0, 0)) }

BatchSegments ==
  { Segments(<<>>), Segments(<<1, 3>>), Segments(<<3, 1>>) }

BatchOptions ==
  { [minWordDuration |-> 0, maxWordDuration |-> 3000],
    [minWordDuration |-> 2, maxWordDuration |-> 4] }

\* Sentences of a one-sentence run
SentenceEntries ==
  { Entry(1, TimeText(0, 0, 1, 0), TimeText(0, 0, 4, 0)),
    Entry(2, TimeText(0, 0, 0, 0), TimeText(0, 0, 0, 1)),
    Entry(3, TimeText(0, 0, 0, 0), TimeText(0, 0, 0, 7)),
    Entry(4, TimeText(0, 0, 59, 998), TimeText(0, 1, 0, 3)),
    Entry(5, TimeText(0, 0, 0, 7), TimeText(0, 0, 0, 0)),
    Entry(6, TimeText(0, 0, 0, 5), TimeText(0, 0, 0, 5)),
    Entry(7, <<" ">> \o TimeText(0, 0, 0, 0), TimeText(0, 0, 0, 9)),
    Entry(8, Tail(TimeText(0, 0, 0, 0)), TimeText(0, 0, 0, 9)),
    Entry(9, TimeText(0, 0, 0, 0), <<"0", "0", ":", "0", "0", ":", "0", "0",
                                     ".", "0", "0", "9">>),
    Entry(10, TimeText(99, 59, 59, 990), TimeText(99, 59, 59, 999)),
    Entry(11, TimeText(99, 59, 59, 990), TimeText(99, 59, 59, 980)),
    Entry(12, TimeText(0, 0, 1, 0), TimeText(0, 0, 2, 285)),
    Entry(13, TimeText(99, 59, 59, 868), TimeText(99, 59, 59, 998)) }

SentenceOptions ==
  { << >>,
    [minWordDuration |-> 0, maxWordDuration |-> 3000],
    [minWordDuration |-> 2, maxWordDuration |-> 4],
    [minWordDuration |-> 5, maxWordDuration |-> 3],
    [minWordDuration |-> 200] }

(***************************************************************************)
(* State                                                                   *)
(***************************************************************************)
VARIABLES
  pc,             \* where the run is
  entries,        \* input: the sentences
  segmentsList,   \* input: the token list of each sentence
  options,        \* input: minWordDuration and maxWordDuration, each optional
  i,              \* batchAllocateTime: position of the next sentence (from 1)
  globalIndex,    \* batchAllocateTime: the next index to give
  wordEntries,    \* batchAllocateTime: what the last allocateTime call returned
  allWordEntries, \* batchAllocateTime: the entries pushed so far, as returned
  origin,         \* history: position of the sentence each pushed entry is of
  warnings,       \* number of span warnings printed
  optimized,      \* optimizeTimeAllocation: the array being smoothed
  j,              \* optimizeTimeAllocation: position of the loop (from 1)
  error,          \* the error thrown, "none" while there is none
  cKind,          \* codec run: kind of cVal
  cVal,           \* codec run: the current value
  cOrig,          \* codec run: the input
  cTrail          \* codec run: the functions applied so far

pipelineVars ==
  <<pc, entries, segmentsList, options, i, globalIndex, wordEntries,
    allWordEntries, origin, warnings, optimized, j, error>>
codecVars == <<cKind, cVal, cOrig, cTrail>>
vars == <<pipelineVars, codecVars>>

NoCodec ==
  /\ cKind = "none"
  /\ cVal = 0
  /\ cOrig = 0
  /\ cTrail = <<>>

PipelineStart ==
  /\ pc = "batchAllocateTime"
  /\ i = 1
  /\ globalIndex = 1
  /\ wordEntries = <<>>
  /\ allWordEntries = <<>>
  /\ origin = <<>>
  /\ warnings = 0
  /\ optimized = <<>>
  /\ j = 1
  /\ error = "none"
  /\ NoCodec

\* A batch: any sentences, any token lists, the two lists of any lengths
Init ==
  /\ entries \in SeqsUpTo(BatchEntries, MaxSentences)
  /\ segmentsList \in SeqsUpTo(BatchSegments, MaxSentences)
  /\ options \in BatchOptions
  /\ PipelineStart

\* Token lengths of a sentence of four tokens
ExampleLengths == <<2, 2, 1, 2>>

\* Token lengths of a sentence of one long token and two short ones
SkewedLengths == <<8, 1, 1>>

\* Token lengths of a sentence of a long token and a short one: the share of
\* the first is seven tenths
TieLengths == <<7, 3>>

\* Token lengths of a sentence of a long token and three short ones
OverrunLengths == <<10, 1, 1, 1>>

\* A batch of one sentence
InitSentence ==
  /\ entries \in {<<e>> : e \in SentenceEntries}
  /\ segmentsList \in
       {<<Segments(l)>> :
          l \in SeqsUpTo(0..MaxLength, MaxTokens)
                 \cup {ExampleLengths, SkewedLengths, TieLengths,
                        OverrunLengths}}
  /\ options \in SentenceOptions
  /\ PipelineStart

(***************************************************************************)
(* Actions of a run of SRTProcessor.process, steps 3 and 4                 *)
(***************************************************************************)
\* An error that ends the loop and lets the entries so far be returned
ThrowSwallowed(e) ==
  /\ pc' = "optimizeTimeAllocation"
  /\ error' = "none"

Throw(e) ==
  /\ pc' = "failed"
  /\ error' = e

\* batchAllocateTime rejecting only a token-list list that is too short
BatchEnterShortOnly ==
  /\ pc = "batchAllocateTime"
  /\ IF Len(entries) > Len(segmentsList)
       THEN /\ Throw("InputMismatch")
            /\ UNCHANGED <<i, globalIndex, allWordEntries, origin>>
       ELSE /\ pc' = "batchLoop"
            /\ i' = 1
            /\ globalIndex' = 1
            /\ allWordEntries' = <<>>
            /\ origin' = <<>>
            /\ UNCHANGED error
  /\ UNCHANGED <<entries, segmentsList, options, wordEntries, warnings,
                 optimized, j, codecVars>>

\* batchAllocateTime, up to its loop
BatchEnter ==
  /\ pc = "batchAllocateTime"
  /\ IF Len(entries) # Len(segmentsList)
       THEN /\ Throw("InputMismatch")
            /\ UNCHANGED <<i, globalIndex, allWordEntries, origin>>
       ELSE /\ pc' = "batchLoop"
            /\ i' = 1
            /\ globalIndex' = 1
            /\ allWordEntries' = <<>>
            /\ origin' = <<>>
            /\ UNCHANGED error
  /\ UNCHANGED <<entries, segmentsList, options, wordEntries, warnings,
                 optimized, j, codecVars>>

\* The entries of an allocateTime result, left with their own numbers
RenumberKept(w, from) == w

\* The entries of an allocateTime result, numbered from globalIndex on
Renumber(w, from) ==
  [k \in 1..Len(w) |-> [w[k] EXCEPT !.index = from + k - 1]]

\* batchAllocateTime, one iteration of its loop
BatchIterate ==
  /\ pc = "batchLoop"
  /\ i <= Len(entries)
  /\ LET r == allocateTime(entries[i], segmentsList[i], options)
     IN IF r.error # "none"
          THEN /\ Throw(r.error)
               /\ UNCHANGED <<i, globalIndex, wordEntries, allWordEntries,
                              origin, warnings>>
          ELSE /\ wordEntries' = r.wordEntries
               /\ allWordEntries' =
                    allWordEntries \o Renumber(r.wordEntries, globalIndex)
               /\ origin' = origin \o [k \in 1..Len(r.wordEntries) |-> i]
               /\ globalIndex' = globalIndex + Len(r.wordEntries)
               /\ warnings' = warnings + (IF r.warned THEN 1 ELSE 0)
               /\ i' = i + 1
               /\ UNCHANGED <<pc, error>>
  /\ UNCHANGED <<entries, segmentsList, options, optimized, j, codecVars>>

\* batchAllocateTime returns and process passes the result on
BatchReturn ==
  /\ pc = "batchLoop"
  /\ i > Len(entries)
  /\ pc' = "optimizeTimeAllocation"
  /\ UNCHANGED <<entries, segmentsList, options, i, globalIndex, wordEntries,
                 allWordEntries, origin, warnings, optimized, j, error,
                 codecVars>>

\* optimizeTimeAllocation copying the array without its first entry
OptimizeEnterSliced ==
  /\ pc = "optimizeTimeAllocation"
  /\ optimized' = IF allWordEntries = <<>> THEN <<>> ELSE Tail(allWordEntries)
  /\ j' = 2
  /\ pc' = IF Len(allWordEntries) <= 1 THEN "done" ELSE "optimizeLoop"
  /\ UNCHANGED <<entries, segmentsList, options, i, globalIndex, wordEntries,
                 allWordEntries, origin, warnings, error, codecVars>>

\* optimizeTimeAllocation, up to its loop
OptimizeEnter ==
  /\ pc = "optimizeTimeAllocation"
  /\ optimized' = allWordEntries
  /\ j' = 2
  /\ pc' = IF Len(allWordEntries) <= 1 THEN "done" ELSE "optimizeLoop"
  /\ UNCHANGED <<entries, segmentsList, options, i, globalIndex, wordEntries,
                 allWordEntries, origin, warnings, error, codecVars>>

\* optimizeTimeAllocation, one iteration of its loop
OptimizeIterate ==
  /\ pc = "optimizeLoop"
  /\ j < Len(optimized)
  /\ LET r == optimizeIteration(optimized, j)
     IN /\ optimized' = r.optimized
        /\ IF r.error # "none"
             THEN /\ Throw(r.error)
                  /\ UNCHANGED j
             ELSE /\ j' = j + 1
                  /\ UNCHANGED <<pc, error>>
  /\ UNCHANGED <<entries, segmentsList, options, i, globalIndex, wordEntries,
                 allWordEntries, origin, warnings, codecVars>>

\* optimizeTimeAllocation returns
OptimizeReturn ==
  /\ pc = "optimizeLoop"
  /\ j >= Len(optimized)
  /\ pc' = "done"
  /\ UNCHANGED <<entries, segmentsList, options, i, globalIndex, wordEntries,
                 allWordEntries, origin, warnings, optimized, j, error,
                 codecVars>>

Next ==
  \/ BatchEnter
  \/ BatchIterate
  \/ BatchReturn
  \/ OptimizeEnter
  \/ OptimizeIterate
  \/ OptimizeReturn

Spec == Init /\ [][Next]_vars
SpecSentence == InitSentence /\ [][Next]_vars

(***************************************************************************)
(* Runs of the codec: an input, and the codec functions applied to it      *)
(***************************************************************************)
CodecTimestamps ==
  [hours : {0, 9, 99, 100, 123}, minutes : {0, 59}, seconds : {0, 59},
   milliseconds : {0, 5, 999}]

CodecTexts ==
  { TimeText(0, 0, 1, 0), TimeText(12, 34, 56, 789), TimeText(99, 59, 59, 999),
    TimeText(0, 75, 99, 7),
    <<" ">> \o TimeText(0, 0, 1, 0),
    TimeText(0, 0, 1, 0) \o <<" ">>,
    <<"\t", " ">> \o TimeText(1, 2, 3, 4) \o <<"\n">>,
    <<"\r">> \o TimeText(0, 0, 1, 0),
    TimeText(0, 0, 1, 0) \o <<"\r", "\n">>,
    <<"\f", " ">> \o TimeText(0, 0, 1, 0) \o <<"U+3000">>,
    Tail(TimeText(0, 0, 1, 0)),
    TimeText(0, 0, 1, 0) \o <<"0">>,
    <<"1">> \o TimeText(0, 0, 1, 0),
    [TimeText(0, 0, 1, 0) EXCEPT ![9] = "."],
    [TimeText(0, 0, 1, 0) EXCEPT ![3] = "-"],
    [TimeText(0, 0, 1, 0) EXCEPT ![5] = "x"],
    [TimeText(0, 0, 1, 0) EXCEPT ![7] = " "],
    <<>> }

CodecMillis ==
  (-MaxMillis..MaxMillis)
    \cup {999, 1000, 59999, 60000, 3599999, 3600000, 3661001, 359999999,
          360000000, 443096789}

InitCodec ==
  /\ \/ cKind = "Timestamp" /\ cVal \in CodecTimestamps
     \/ cKind = "text" /\ cVal \in CodecTexts
     \/ cKind = "millis" /\ cVal \in CodecMillis
  /\ cOrig = cVal
  /\ cTrail = <<>>
  /\ pc = "codec"
  /\ entries = <<>>
  /\ segmentsList = <<>>
  /\ options = << >>
  /\ i = 1
  /\ globalIndex = 1
  /\ wordEntries = <<>>
  /\ allWordEntries = <<>>
  /\ origin = <<>>
  /\ warnings = 0
  /\ optimized = <<>>
  /\ j = 1
  /\ error = "none"

CodecApply(name, kind, value) ==
  /\ pc = "codec"
  /\ Len(cTrail) < MaxCodecSteps
  /\ cTrail' = Append(cTrail, name)
  /\ cKind' = kind
  /\ cVal' = value
  /\ UNCHANGED <<cOrig, pipelineVars>>

CodecParse ==
  /\ cKind = "text"
  /\ CodecApply("parse", IF ParseOk(cVal) THEN "Timestamp" ELSE "error",
                parseTimeStamp(cVal))

CodecFormat ==
  /\ cKind = "Timestamp"
  /\ CodecApply("format", "text", formatTimeStamp(cVal))

CodecToMillis ==
  /\ cKind = "Timestamp"
  /\ CodecApply("toMillis", "millis", timeStampToMilliseconds(cVal))

CodecFromMillis ==
  /\ cKind = "millis"
  /\ CodecApply("fromMillis", "Timestamp", millisecondsToTimeStamp(cVal))

NextCodec ==
  \/ CodecParse
  \/ CodecFormat
  \/ CodecToMillis
  \/ CodecFromMillis

SpecCodec == InitCodec /\ [][NextCodec]_vars

(***************************************************************************)
(* Properties                                                              *)
(***************************************************************************)
MinDuration == OptionOr(options, "minWordDuration", DEFAULT_MIN_DURATION)
MaxDuration == OptionOr(options, "maxWordDuration", DEFAULT_MAX_DURATION)

\* timeStr is exactly HH:MM:SS,mmm, with nothing around it
WellFormed(timeStr) == TimeRegexMatches(timeStr)

\* Each entry ends where the next one starts
Chained(w) == \A k \in 1..(Len(w) - 1) : w[k].endTime = w[k + 1].startTime

RECURSIVE SumDurations(_)
SumDurations(w) ==
  IF w = <<>> THEN 0
  ELSE SumDurations(SubSeq(w, 1, Len(w) - 1)) + w[Len(w)].duration

\* allocateTime has returned for the sentence at position i - 1, and
\* wordEntries is what it returned
Allocated == pc \in {"batchLoop", "optimizeTimeAllocation", "optimizeLoop",
                     "done", "failed"} /\ i > 1
Sentence == entries[i - 1]
Tokens == segmentsList[i - 1]
SentenceDuration == calculateDuration(Sentence.startTime, Sentence.endTime)

\* C1: for a sentence with well-formed timestamps, a non-empty token list of
\* positive total length and 0 <= minDuration <= maxDuration, the last entry
\* allocateTime returns ends at the sentence's endTime.
C1_LastEndsAtSentenceEnd ==
  (/\ Allocated
   /\ WellFormed(Sentence.startTime) /\ WellFormed(Sentence.endTime)
   /\ Len(Tokens) > 0 /\ SumLengths(Tokens) > 0
   /\ 0 <= MinDuration /\ MinDuration <= MaxDuration)
  => /\ wordEntries # <<>>
     /\ wordEntries[Len(wordEntries)].endTime = Sentence.endTime

\* No token before the last has its proportional share changed by the clamp
NoShareClamped ==
  \A k \in 1..(Len(Tokens) - 1) :
    LET share == Round(Tokens[k].length * SentenceDuration, SumLengths(Tokens))
    IN MinDuration <= share /\ share <= MaxDuration

\* C2: when T >= minDuration * tokenCount and no share of a token before the
\* last is changed by the clamp, the durations allocateTime returns sum to T,
\* the first entry starts at the sentence's startTime and the last ends at
\* its endTime.
C2_SpanConserved ==
  (/\ Allocated
   /\ DurationOk(Sentence.startTime, Sentence.endTime)
   /\ SumLengths(Tokens) > 0
   /\ SentenceDuration >= MinDuration * Len(Tokens)
   /\ NoShareClamped)
  => /\ Len(wordEntries) = Len(Tokens)
     /\ SumDurations(wordEntries) = SentenceDuration
     /\ wordEntries[1].startTime = Sentence.startTime
     /\ wordEntries[Len(wordEntries)].endTime = Sentence.endTime

\* C3 as claimed: in the batch's sequence, before smoothing and after it,
\* every entry ends where the next starts, also across two sentences.
C3_ChainedAcrossBatch ==
  /\ pc \in {"optimizeTimeAllocation", "optimizeLoop", "done"}
       => Chained(allWordEntries)
  /\ pc = "done" => Chained(optimized)

\* Each entry ends where the next starts when both are of the same sentence
ChainedWithinSentences(w) ==
  \A k \in 1..(Len(w) - 1) :
    origin[k] = origin[k + 1] => w[k].endTime = w[k + 1].startTime

\* C3 amended: in the batch's sequence, before smoothing, during it and after
\* it, every entry ends where the next starts when both are of the same
\* sentence.
C3_ChainedWithinSentences ==
  /\ ChainedWithinSentences(allWordEntries)
  /\ pc \in {"optimizeLoop", "done"} => ChainedWithinSentences(optimized)

\* Smoothing has changed an entry that is followed by one of its own sentence
\* and has left a gap between two sentences as it was
C3_Witness ==
  /\ pc = "done"
  /\ \E k \in 1..(Len(optimized) - 1) :
       /\ origin[k] = origin[k + 1]
       /\ optimized[k].endTime # allWordEntries[k].endTime
  /\ \E k \in 1..(Len(optimized) - 1) :
       /\ origin[k] # origin[k + 1]
       /\ optimized[k].endTime # optimized[k + 1].startTime

\* C4: in what allocateTime returns for a sentence, the first entry starts at
\* the sentence's startTime and every entry ends where the next starts.
C4_SentenceChain ==
  (Allocated /\ wordEntries # <<>>)
  => /\ wordEntries[1].startTime = Sentence.startTime
     /\ Chained(wordEntries)

\* allocateTime has returned three entries, the clamp having changed a share
C4_Witness ==
  /\ Allocated
  /\ Len(wordEntries) = 3
  /\ ~NoShareClamped
  /\ wordEntries[1].endTime # wordEntries[1].startTime

\* C5: every entry optimizeTimeAllocation returns has
\* duration = calculateDuration(startTime, endTime).
C5_DurationInSync ==
  pc = "done"
  => \A k \in 1..Len(optimized) :
       /\ DurationOk(optimized[k].startTime, optimized[k].endTime)
       /\ optimized[k].duration =
            calculateDuration(optimized[k].startTime, optimized[k].endTime)

\* Number of entries allocateTime returns for a token list
Produced(segments) == IF SumLengths(segments) = 0 THEN 0 ELSE Len(segments)

\* The (sentence position, token position) pairs of a batch, in input order
RECURSIVE InputOrder(_)
InputOrder(n) ==
  IF n = 0 THEN <<>>
  ELSE InputOrder(n - 1) \o [t \in 1..Produced(segmentsList[n]) |-> <<n, t>>]

\* C6: batchAllocateTime returns the entries in input order (sentence order,
\* then token order) with index 1, 2, ..., M, whatever sentences produce none.
C6_GlobalIndex ==
  pc \in {"optimizeTimeAllocation", "optimizeLoop", "done"}
  => LET order == InputOrder(Len(entries))
     IN /\ Len(allWordEntries) = Len(order)
        /\ \A k \in 1..Len(allWordEntries) :
             /\ allWordEntries[k].index = k
             /\ allWordEntries[k].word =
                  segmentsList[order[k][1]][order[k][2]].word
             /\ allWordEntries[k].originalIndex = entries[order[k][1]].index

\* A batch of three sentences whose second one produces no entry
C6_Witness ==
  /\ pc = "optimizeTimeAllocation"
  /\ Len(entries) = 3
  /\ Produced(segmentsList[1]) = 2
  /\ Produced(segmentsList[2]) = 0
  /\ Produced(segmentsList[3]) = 2
  /\ Len(allWordEntries) = 4

\* C7: with a sentence list and a token-list list of different lengths,
\* batchAllocateTime throws InputMismatch before any allocateTime call and
\* returns no entry.
C7_MismatchRejected ==
  (Len(entries) # Len(segmentsList) /\ pc # "batchAllocateTime")
  => /\ pc = "failed"
     /\ error = "InputMismatch"
     /\ i = 1
     /\ wordEntries = <<>>
     /\ allWordEntries = <<>>
     /\ optimized = <<>>
     /\ warnings = 0

\* Three sentences and two token lists, each with tokens, have been rejected
C7_Witness ==
  /\ pc = "failed"
  /\ error = "InputMismatch"
  /\ Len(entries) = 3
  /\ Len(segmentsList) = 2
  /\ \A n \in 1..2 : Produced(segmentsList[n]) > 0

\* A Timestamp with milliseconds in 0..999, seconds and minutes in 0..59 and
\* hours any natural number
ValidTimestamp(ts) ==
  /\ ts.hours >= 0
  /\ ts.minutes \in 0..59
  /\ ts.seconds \in 0..59
  /\ ts.milliseconds \in 0..999

\* C8: for every valid Timestamp ts, hours of 100 and more included,
\* parseTimeStamp(formatTimeStamp(ts)) succeeds and is ts.
C8_ParseOfFormat ==
  (cTrail = <<"format", "parse">> /\ ValidTimestamp(cOrig))
  => cKind = "Timestamp" /\ cVal = cOrig

\* C9 as claimed: for every text t that parseTimeStamp accepts,
\* formatTimeStamp(parseTimeStamp(t)) = t.
C9_FormatOfParse ==
  (cTrail = <<"parse", "format">> /\ ParseOk(cOrig)) => cVal = cOrig

\* C9 amended: for every text t that parseTimeStamp accepts,
\* formatTimeStamp(parseTimeStamp(t)) is t without its leading and trailing
\* white space.
C9_FormatOfParseTrimmed ==
  (cTrail = <<"parse", "format">> /\ ParseOk(cOrig)) => cVal = Trim(cOrig)

\* A text with white space on both sides has been parsed and formatted
C9_Witness ==
  /\ cTrail = <<"parse", "format">>
  /\ ParseOk(cOrig)
  /\ Head(cOrig) \in WhiteSpace
  /\ cOrig[Len(cOrig)] \in WhiteSpace
  /\ cVal # cOrig

\* C10: for every integer x, timeStampToMilliseconds(millisecondsToTimeStamp(x))
\* is max(0, x), and the fields of millisecondsToTimeStamp(x) are in range:
\* milliseconds in 0..999, seconds and minutes in 0..59.
C10_MillisRoundTrip ==
  /\ cTrail = <<"fromMillis">>
       => /\ cVal.milliseconds \in 0..999
          /\ cVal.seconds \in 0..59
          /\ cVal.minutes \in 0..59
          /\ cVal.hours >= 0
  /\ cTrail = <<"fromMillis", "toMillis">> => cVal = Max(0, cOrig)

\* An offset of more than an hour, with every field non-zero, has made the
\* round trip
C10_Witness ==
  /\ cTrail = <<"fromMillis", "toMillis">>
  /\ cOrig = 3661001
  /\ cVal = cOrig

\* C11 as claimed: parseTimeStamp succeeds on exactly the texts of the form
\* DD:DD:DD,DDD and throws the malformed-timestamp error on every other text,
\* a well-formed timestamp with white space around it included.
C11_ParseExactlyPattern ==
  cTrail = <<"parse">>
    => /\ cKind = "Timestamp" <=> WellFormed(cOrig)
       /\ ~WellFormed(cOrig) => cKind = "error" /\ cVal = MalformedTimestamp

\* C11 amended: parseTimeStamp succeeds on exactly the texts that, without
\* their leading and trailing white space, have the form DD:DD:DD,DDD, and
\* throws the malformed-timestamp error on every other text.
C11_ParseExactlyTrimmedPattern ==
  cTrail = <<"parse">>
    => /\ cKind = "Timestamp" <=> WellFormed(Trim(cOrig))
       /\ ~WellFormed(Trim(cOrig))
            => cKind = "error" /\ cVal = MalformedTimestamp

\* A text of the right length whose last separator is wrong has been rejected
C11_Witness ==
  /\ cTrail = <<"parse">>
  /\ Len(cOrig) = 12
  /\ cOrig[9] = "."
  /\ cKind = "error"
  /\ cVal = MalformedTimestamp

(***************************************************************************)
(* Batches of two sentences whose timestamps may be malformed              *)
(***************************************************************************)
\* Two sentences that touch, one whose startTime has a space before it, one
\* whose startTime lacks a digit and one whose endTime has a wrong separator
FaultyEntries ==
  { Entry(7, TimeText(0, 0, 0, 0), TimeText(0, 0, 0, 6)),
    Entry(8, TimeText(0, 0, 0, 6), TimeText(0, 0, 0, 20)),
    Entry(3, <<" ">> \o TimeText(0, 0, 0, 0), TimeText(0, 0, 0, 9)),
    Entry(4, Tail(TimeText(0, 0, 0, 0)), TimeText(0, 0, 0, 9)),
    Entry(5, TimeText(0, 0, 0, 0), [TimeText(0, 0, 0, 9) EXCEPT ![9] = "."]) }

FaultySegments ==
  { Segments(<<>>), Segments(<<0>>), Segments(<<1, 3>>), Segments(<<3, 1>>) }

InitFaulty ==
  /\ entries \in {<<a, b>> : a \in FaultyEntries, b \in FaultyEntries}
  /\ segmentsList \in {<<s, t>> : s \in FaultySegments, t \in FaultySegments}
  /\ options \in BatchOptions
  /\ PipelineStart

SpecFaulty == InitFaulty /\ [][Next]_vars

\* batchAllocateTime has returned its result to process
BatchReturned == pc \in {"optimizeTimeAllocation", "optimizeLoop", "done"}

\* C12 as claimed: a sentence whose startTime or endTime is not exactly of the
\* form DD:DD:DD,DDD makes allocateTime throw the malformed-timestamp error
\* for every token list, and makes batchAllocateTime throw instead of
\* returning entries.
C12_MalformedAlwaysFatal ==
  \A k \in 1..Len(entries) :
    ~(WellFormed(entries[k].startTime) /\ WellFormed(entries[k].endTime))
      => /\ ~(k < i)
         /\ ~BatchReturned
         /\ (pc = "failed" /\ i = k) => error = "MalformedTimestamp"

\* C12 amended: a sentence whose startTime or endTime, without its leading
\* and trailing white space, is not of the form DD:DD:DD,DDD makes
\* allocateTime throw the malformed-timestamp error for every non-empty token
\* list, and batchAllocateTime throws instead of returning entries when the
\* batch has such a sentence with a non-empty token list.
C12_MalformedFatalForTokens ==
  \A k \in 1..Len(entries) :
    (/\ ~DurationOk(entries[k].startTime, entries[k].endTime)
     /\ segmentsList[k] # <<>>)
      => /\ ~(k < i)
         /\ ~BatchReturned
         /\ (pc = "failed" /\ i = k)
              => error = "MalformedTimestamp" /\ optimized = <<>>

\* The second sentence of a batch has a malformed timestamp and tokens, the
\* first had produced entries, and the batch has failed
C12_Witness ==
  /\ pc = "failed"
  /\ error = "MalformedTimestamp"
  /\ i = 2
  /\ ~DurationOk(entries[2].startTime, entries[2].endTime)
  /\ segmentsList[2] # <<>>
  /\ allWordEntries # <<>>
  /\ optimized = <<>>

\* allocateTime has thrown on the sentence at position i
AllocateThrew ==
  pc = "failed" /\ error # "InputMismatch" /\ i <= Len(entries)

\* One entry per token, in token order, with the token's word and the
\* sentence's index
OnePerToken(w, tokens, sentence) ==
  /\ Len(w) = Len(tokens)
  /\ \A k \in 1..Len(w) :
       /\ w[k].word = tokens[k].word
       /\ w[k].originalIndex = sentence.index

\* C13: allocateTime returns no entries and throws nothing whenever the token
\* list is empty or the token lengths sum to zero; otherwise, for a sentence
\* whose timestamps parse, it returns one entry per token, in token order,
\* each with the token's word and the sentence's index as originalIndex.
C13_EmptyOrOnePerToken ==
  /\ AllocateThrew
       => /\ SumLengths(segmentsList[i]) > 0
          /\ ~DurationOk(entries[i].startTime, entries[i].endTime)
  /\ Allocated
       => IF SumLengths(Tokens) = 0
            THEN wordEntries = <<>>
            ELSE OnePerToken(wordEntries, Tokens, Sentence)

\* optimizeTimeAllocation has returned; optimized is its result and
\* allWordEntries what it was given
Smoothed == pc = "done"

\* The start, the end and the duration of the two entries are the same
SameTimes(a, b) ==
  /\ a.startTime = b.startTime
  /\ a.endTime = b.endTime
  /\ a.duration = b.duration

\* C14 as claimed: optimizeTimeAllocation leaves the startTime, endTime and
\* duration of the first and of the last entry of the batch's sequence as
\* they were, and returns a sequence of at most one entry unchanged.
C14_EndsUntouched ==
  Smoothed
    => IF Len(allWordEntries) <= 1 THEN optimized = allWordEntries
       ELSE /\ SameTimes(optimized[1], allWordEntries[1])
            /\ SameTimes(optimized[Len(optimized)],
                         allWordEntries[Len(allWordEntries)])

\* C14 amended: optimizeTimeAllocation returns a sequence of at most two
\* entries unchanged; of a longer one it leaves the first entry as it was and
\* the endTime and duration of the last entry as they were, and the last
\* entry's startTime is either as it was or the new endTime of the entry
\* before it.
C14_FirstAndLastEndUntouched ==
  Smoothed
    => LET n == Len(allWordEntries)
       IN IF n <= 2 THEN optimized = allWordEntries
          ELSE /\ Len(optimized) = n
               /\ optimized[1] = allWordEntries[1]
               /\ optimized[n].endTime = allWordEntries[n].endTime
               /\ optimized[n].duration = allWordEntries[n].duration
               /\ \/ optimized[n].startTime = allWordEntries[n].startTime
                  \/ /\ optimized[n].startTime = optimized[n - 1].endTime
                     /\ optimized[n - 1].endTime
                          # allWordEntries[n - 1].endTime

\* Smoothing has moved the startTime of the last entry of the batch
C14_Witness ==
  /\ Smoothed
  /\ Len(optimized) >= 3
  /\ optimized[Len(optimized)].startTime
       # allWordEntries[Len(allWordEntries)].startTime

\* C15: during and after optimizeTimeAllocation, the array has as many
\* entries as the one it was given, and its k-th entry has the index, the word
\* and the originalIndex of the k-th entry given.
C15_SameEntries ==
  pc \in {"optimizeLoop", "done"}
    => /\ Len(optimized) = Len(allWordEntries)
       /\ \A k \in 1..Len(optimized) :
            /\ optimized[k].index = allWordEntries[k].index
            /\ optimized[k].word = allWordEntries[k].word
            /\ optimized[k].originalIndex = allWordEntries[k].originalIndex

\* Smoothing has returned four entries of two sentences and has changed the
\* duration of one of them
C15_Witness ==
  /\ Smoothed
  /\ Len(optimized) = 4
  /\ optimized[1].originalIndex # optimized[4].originalIndex
  /\ \E k \in 1..4 : optimized[k].duration # allWordEntries[k].duration

\* C16: for a sentence whose endTime is before its startTime, a token list
\* of positive total length and 0 <= minDuration <= maxDuration, allocateTime
\* does not throw: it returns one entry per token, every duration is at least
\* 0 and the last duration is 0.
C16_NegativeSpanAllocates ==
  /\ (/\ AllocateThrew
      /\ 0 <= MinDuration /\ MinDuration <= MaxDuration
      /\ SumLengths(segmentsList[i]) > 0
      /\ DurationOk(entries[i].startTime, entries[i].endTime))
     => calculateDuration(entries[i].startTime, entries[i].endTime) >= 0
  /\ (/\ Allocated
      /\ 0 <= MinDuration /\ MinDuration <= MaxDuration
      /\ SumLengths(Tokens) > 0
      /\ DurationOk(Sentence.startTime, Sentence.endTime)
      /\ SentenceDuration < 0)
     => /\ Len(wordEntries) = Len(Tokens)
        /\ \A k \in 1..Len(wordEntries) : wordEntries[k].duration >= 0
        /\ wordEntries[Len(wordEntries)].duration = 0

\* x brought into lo..hi, for lo <= hi
Clamp(x, lo, hi) == IF x < lo THEN lo ELSE IF x > hi THEN hi ELSE x

\* C17: when minDuration <= maxDuration, every entry allocateTime returns
\* before the last of its sentence has the duration
\* clamp(round(T * length / L), minDuration, maxDuration), which lies in
\* minDuration..maxDuration; and for T = 3000, lengths 2, 2, 1, 2,
\* minDuration 200 and maxDuration 3000 the durations are 857, 857, 429 and,
\* for the last token, the remaining 857.
C17_ClampedShare ==
  (/\ Allocated
   /\ wordEntries # <<>>
   /\ MinDuration <= MaxDuration)
  => /\ \A k \in 1..(Len(wordEntries) - 1) :
          /\ wordEntries[k].duration =
               Clamp(Round(SentenceDuration * Tokens[k].length,
                           SumLengths(Tokens)),
                     MinDuration, MaxDuration)
          /\ MinDuration <= wordEntries[k].duration
          /\ wordEntries[k].duration <= MaxDuration
     /\ (/\ SentenceDuration = 3000
         /\ [k \in 1..Len(Tokens) |-> Tokens[k].length] = ExampleLengths
         /\ MinDuration = 200
         /\ MaxDuration = 3000)
        => /\ [k \in 1..Len(wordEntries) |-> wordEntries[k].duration]
                = <<857, 857, 429, 857>>
           /\ wordEntries[4].endTime = Sentence.endTime

\* While the sweep is at position j (the code's i + 1), the entries from j on
\* have the durations and endTimes they were given, and those after j their
\* startTimes too
SweepAhead ==
  pc = "optimizeLoop"
    => /\ j >= 2
       /\ \A k \in j..Len(optimized) :
            /\ optimized[k].duration = allWordEntries[k].duration
            /\ optimized[k].endTime = allWordEntries[k].endTime
            /\ k > j => optimized[k].startTime = allWordEntries[k].startTime

\* What one iteration of the sweep that does not throw does
SweepStep ==
  (pc = "optimizeLoop" /\ j < Len(optimized) /\ pc' # "failed")
    => LET current == optimized[j]
           avg2 == optimized[j - 1].duration + optimized[j + 1].duration
           rounded == Round(2 * current.duration + avg2, 4)
       IN /\ j' = j + 1
          /\ IF 10 * Abs(2 * current.duration - avg2) > 3 * avg2
               THEN /\ optimized'[j].duration = rounded
                    /\ optimized'[j].startTime = current.startTime
                    /\ optimized'[j].endTime =
                         addMilliseconds(current.startTime, rounded)
                    /\ optimized'[j + 1].startTime = optimized'[j].endTime
                    /\ optimized'[j + 1].duration = optimized[j + 1].duration
                    /\ optimized'[j + 1].endTime = optimized[j + 1].endTime
                    /\ \A k \in 1..Len(optimized) :
                         k \notin {j, j + 1} => optimized'[k] = optimized[k]
               ELSE optimized' = optimized

\* C18: the sweep visits the positions 1..n-2 (of an array counted from 0) in
\* increasing order; at each it takes the previous entry's duration as the
\* sweep left it and the next entry's duration as it was given, and with avg
\* their mean, the entry is adjusted if and only if |duration - avg| > 0.3*avg:
\* its duration becomes round((duration + avg)/2), its endTime its startTime
\* plus that, and the next entry's startTime that endTime, the next entry's
\* duration and endTime staying.
C18_Sweep == []SweepAhead /\ [][SweepStep]_vars

\* The sweep has adjusted two entries in a row, the second against the
\* adjusted duration of the first
C18_Witness ==
  /\ pc = "optimizeLoop"
  /\ j = 4
  /\ optimized[2].duration # allWordEntries[2].duration
  /\ optimized[3].duration # allWordEntries[3].duration
  /\ optimized[3].duration
       = Round(2 * allWordEntries[3].duration + optimized[2].duration
                 + allWordEntries[4].duration, 4)
  /\ optimized[3].duration
       # Round(2 * allWordEntries[3].duration + allWordEntries[2].duration
                 + allWordEntries[4].duration, 4)

(***************************************************************************)
(* Batches of either kind                                                  *)
(***************************************************************************)
InitAllocate == Init \/ InitSentence

SpecAllocate == InitAllocate /\ [][Next]_vars

\* The entry's duration is at least 0 and is what calculateDuration gives for
\* its startTime and endTime
DurationOfTimes(w) ==
  /\ w.duration >= 0
  /\ DurationOk(w.startTime, w.endTime)
  /\ w.duration = calculateDuration(w.startTime, w.endTime)

\* C19: when 0 <= minDuration <= maxDuration, every entry that allocateTime
\* returns, and every entry of what batchAllocateTime has built before
\* smoothing, has a duration of at least 0 that is
\* calculateDuration(startTime, endTime), also for a sentence whose endTime
\* is before its startTime.
C19_DurationOfTimes ==
  (0 <= MinDuration /\ MinDuration <= MaxDuration)
    => /\ \A k \in 1..Len(wordEntries) : DurationOfTimes(wordEntries[k])
       /\ \A k \in 1..Len(allWordEntries) : DurationOfTimes(allWordEntries[k])

\* allocateTime has returned three entries for a sentence whose endTime is
\* before its startTime, the first of a positive duration
C19_Witness ==
  /\ Allocated
  /\ 0 <= MinDuration /\ MinDuration <= MaxDuration
  /\ DurationOk(Sentence.startTime, Sentence.endTime)
  /\ SentenceDuration < 0
  /\ Len(wordEntries) = 3
  /\ wordEntries[1].duration > 0
  /\ allWordEntries = wordEntries

\* The span from the first entry's startTime to the last entry's endTime
RealizedSpan(w) == calculateDuration(w[1].startTime, w[Len(w)].endTime)

\* C20: allocateTime prints the span warning for a sentence if and only if the
\* entries it is about to return span, from the first startTime to the last
\* endTime, a time that differs from T by more than 1 ms; printing it leaves
\* the entries as the loop built them, and the check throws nothing.
C20_WarningIffDrift ==
  /\ Allocated
       => /\ warnings = 1
            <=> /\ wordEntries # <<>>
                /\ Abs(RealizedSpan(wordEntries) - SentenceDuration) > 1
          /\ warnings \in {0, 1}
          /\ (Len(Tokens) > 0 /\ SumLengths(Tokens) > 0)
               => wordEntries =
                    allocateTimeLoop(Sentence, Tokens, MinDuration,
                                     MaxDuration, SentenceDuration,
                                     SumLengths(Tokens),
                                     Len(Tokens)).wordEntries
  /\ (AllocateThrew /\ DurationOk(entries[i].startTime, entries[i].endTime))
       => /\ warnings = 0
          /\ allocateTimeLoop(entries[i], segmentsList[i], MinDuration,
                              MaxDuration,
                              calculateDuration(entries[i].startTime,
                                                entries[i].endTime),
                              SumLengths(segmentsList[i]),
                              Len(segmentsList[i])).error # "none"

\* allocateTime has printed the warning and returned three entries whose
\* span is not the sentence's
C20_Witness ==
  /\ Allocated
  /\ pc # "failed"
  /\ warnings = 1
  /\ Len(wordEntries) = 3
  /\ RealizedSpan(wordEntries) > SentenceDuration + 1

\* Every sentence of the batch has timestamps that parse and an endTime that
\* is not before its startTime
SentencesForward ==
  \A k \in 1..Len(entries) :
    /\ DurationOk(entries[k].startTime, entries[k].endTime)
    /\ calculateDuration(entries[k].startTime, entries[k].endTime) >= 0

\* The entry's startTime is not after its endTime
StartNotAfterEnd(w) ==
  /\ DurationOk(w.startTime, w.endTime)
  /\ calculateDuration(w.startTime, w.endTime) >= 0

\* C21: for a batch of sentences whose endTime is not before their startTime,
\* every entry of what optimizeTimeAllocation returns after batchAllocateTime
\* has a startTime that is not after its endTime, the last entry of the batch
\* included.
C21_StartNotAfterEnd ==
  (Smoothed /\ SentencesForward)
    => \A k \in 1..Len(optimized) : StartNotAfterEnd(optimized[k])
====
